---- MODULE Spec2Model ----
(***************************************************************************)
(* A model of test-generator/overwrite-unit-tests.py: the numeric oracle   *)
(* helpers, the PurePython test-case builder, the driver under __main__    *)
(* and the template substitution that writes autogenerated.py.             *)
(*                                                                         *)
(* Text is a sequence of fragments.  The fragments that matter one by one  *)
(* (the newline, the characters of the placeholder, digits) are single     *)
(* characters; a literal of the script that is only ever copied is one     *)
(* fragment.  Floats are exact decimals counted in tenths (3.4 is 34), and *)
(* the oracles return exact rationals [num, den]: rounding is not          *)
(* modelled.                                                               *)
(***************************************************************************)
EXTENDS Integers, Sequences, FiniteSets, TLC

VARIABLES
    \* ---- one PurePython object driven by arbitrary calls (SpecBuilder)
    obj,        \* the builder: name, constructor, autoassertions, tests
    calls,      \* the test() calls made so far, in order: <<fillvalue, assertion>>
    ret,        \* what the last string() call returned
    lastOp,     \* "init", "test" or "string": the last method called
    streak,     \* string() calls since the last test() call (capped at 2)
    \* ---- the generation run under __main__ (Spec)
    pc,         \* the statement the driver executes next
    i,          \* the loop variable of the two for loops
    objs,       \* the builders the driver has created, by variable name
    purePython, \* the driver's list of builders (variable names), in append order
    files,      \* the file system: the template file and the destination file
    template,   \* the driver's local variable template
    parts,      \* the rendered texts the generator handed to join so far
    renders,    \* string() calls made on each builder so far
    asserted,   \* the "data" value of each assertion passed to weightedCount.test
    abortedAt,  \* the statement an aborted run failed in
    it,         \* the next value of the running for loop's range iterator
    \* ---- str.replace on arbitrary texts (SpecReplace)
    rTemplate, rPayload, rOut, rDone,
    \* ---- the numeric oracles on arbitrary inputs (SpecOracle)
    ox, ow, ores, ocalled

builderVars == <<obj, calls, ret, lastOp, streak>>
driverVars  == <<pc, i, objs, purePython, files, template, parts, renders,
                 asserted, abortedAt, it>>
replaceVars == <<rTemplate, rPayload, rOut, rDone>>
oracleVars  == <<ox, ow, ores, ocalled>>
vars == <<builderVars, driverVars, replaceVars, oracleVars>>

(***************************************************************************)
(* Bounds of the model.                                                    *)
(***************************************************************************)
MaxCalls == 3       \* test() calls on the builder of SpecBuilder
MaxPartial == 3     \* fragments a failed write can leave in the destination
MaxChunks == 3      \* pieces a template of SpecReplace is put together from
MaxLen == 2         \* length of the sequences handed to the oracles

(***************************************************************************)
(* Text helpers: Python's str.join, str.splitlines-like view, float repr.  *)
(***************************************************************************)
NL == "\n"

RECURSIVE join(_, _)
\* sep.join(texts): the texts in order with sep between neighbours (the
\* list is halved at each step to keep the evaluation shallow)
join(sep, texts) ==
    IF Len(texts) = 0 THEN <<>>
    ELSE IF Len(texts) = 1 THEN texts[1]
    ELSE LET h == Len(texts) \div 2
         IN  join(sep, SubSeq(texts, 1, h)) \o sep
             \o join(sep, SubSeq(texts, h + 1, Len(texts)))

RECURSIVE SplitLines(_)
\* the lines of a text, split at every newline fragment
SplitLines(t) ==
    IF \A k \in 1..Len(t) : t[k] # NL THEN <<t>>
    ELSE LET p == CHOOSE k \in 1..Len(t) :
                      t[k] = NL /\ \A j \in 1..(k - 1) : t[j] # NL
         IN  <<SubSeq(t, 1, p - 1)>> \o SplitLines(SubSeq(t, p + 1, Len(t)))

Digit(d) == <<"0", "1", "2", "3", "4", "5", "6", "7", "8", "9">>[d + 1]

RECURSIVE NatRepr(_)
NatRepr(n) == IF n < 10 THEN <<Digit(n)>>
              ELSE NatRepr(n \div 10) \o <<Digit(n % 10)>>

\* repr of the float tenths/10: sign, integer part, ".", one decimal
FloatRepr(tenths) ==
    LET a == IF tenths < 0 THEN -tenths ELSE tenths
    IN  (IF tenths < 0 THEN <<"-">> ELSE <<>>)
        \o NatRepr(a \div 10) \o <<".">> \o <<Digit(a % 10)>>

(***************************************************************************)
(* The sample data.                                                        *)
(***************************************************************************)
simple == <<34, 22, -18, 0, 73, -47, 16, 0, -30, -17>>

struct == << [bool |-> TRUE,  int |-> -2, double |-> 34,  string |-> "one"],
             [bool |-> FALSE, int |-> -1, double |-> 22,  string |-> "two"],
             [bool |-> TRUE,  int |-> 0,  double |-> -18, string |-> "three"],
             [bool |-> FALSE, int |-> 1,  double |-> 0,   string |-> "four"],
             [bool |-> FALSE, int |-> 2,  double |-> 73,  string |-> "five"],
             [bool |-> FALSE, int |-> 3,  double |-> -47, string |-> "six"],
             [bool |-> TRUE,  int |-> 4,  double |-> 16,  string |-> "seven"],
             [bool |-> TRUE,  int |-> 5,  double |-> 0,   string |-> "eight"],
             [bool |-> FALSE, int |-> 6,  double |-> -30, string |-> "nine"],
             [bool |-> TRUE,  int |-> 7,  double |-> -17, string |-> "ten"] >>

IntRepr(n) == IF n < 0 THEN <<"-">> \o NatRepr(-n) ELSE NatRepr(n)

\* Struct.__repr__
StructRepr(s) ==
    <<"Struct(">> \o <<IF s.bool THEN "True" ELSE "False">> \o <<", ">>
    \o IntRepr(s.int) \o <<", ">> \o FloatRepr(s.double) \o <<", ">>
    \o <<"'", s.string, "'">> \o <<")">>

(***************************************************************************)
(* Values passed as fillvalue: None, a str, a float or a Struct of the     *)
(* struct list (by its index).                                             *)
(***************************************************************************)
None        == [kind |-> "none",   num |-> 0, txt |-> <<>>]
StrVal(t)   == [kind |-> "str",    num |-> 0, txt |-> t]
FloatVal(n) == [kind |-> "float",  num |-> n, txt |-> <<>>]
StructVal(k) == [kind |-> "struct", num |-> k, txt |-> <<>>]

\* what "{}".format(v) inserts
Format(v) ==
    CASE v.kind = "str"    -> v.txt
      [] v.kind = "float"  -> FloatRepr(v.num)
      [] v.kind = "struct" -> StructRepr(struct[v.num])
      [] OTHER             -> <<"None">>

(***************************************************************************)
(* class PurePython.  A method is an operator from the object (and its     *)
(* arguments) to the object afterwards and the value returned.             *)
(***************************************************************************)
var == "x"
Indent == "        "

PurePython(name, constructor, autoassertions) ==
    [name |-> name, constructor |-> constructor,
     autoassertions |-> autoassertions, tests |-> <<>>]

\* test() with the auto-assertions emitted on the first call only
test_AutoOnce(self, fillvalue, assertion) ==
    LET t1 == IF self.tests = <<>> THEN self.tests \o self.autoassertions
              ELSE self.tests
        t2 == IF fillvalue # None
              THEN Append(t1, <<var, ".fill(">> \o Format(fillvalue) \o <<")">>)
              ELSE t1
    IN  [self |-> [self EXCEPT !.tests = Append(t2, assertion)], ret |-> <<>>]

test(self, fillvalue, assertion) ==
    LET t1 == self.tests \o self.autoassertions
        t2 == IF fillvalue # None
              THEN Append(t1, <<var, ".fill(">> \o Format(fillvalue) \o <<")">>)
              ELSE t1
    IN  [self |-> [self EXCEPT !.tests = Append(t2, assertion)], ret |-> <<>>]

\* string() building its lines in self.tests instead of a local list
string_InPlace(self) ==
    LET out == <<  <<"    def test_">> \o self.name \o <<"(self):">>,
                   <<Indent, var, " = ">> \o self.constructor  >>
               \o [k \in 1..Len(self.tests) |-> <<Indent>> \o self.tests[k]]
    IN  [self |-> [self EXCEPT !.tests = out], ret |-> join(<<NL>>, out)]

string(self) ==
    LET out == <<  <<"    def test_">> \o self.name \o <<"(self):">>,
                   <<Indent, var, " = ">> \o self.constructor  >>
               \o [k \in 1..Len(self.tests) |-> <<Indent>> \o self.tests[k]]
    IN  [self |-> self, ret |-> join(<<NL>>, out)]

(***************************************************************************)
(* SpecBuilder: one PurePython object, any constructor arguments, any      *)
(* sequence of test() and string() calls.                                  *)
(***************************************************************************)
BuilderNames   == { <<"count">>, <<"sum", "String">> }
BuilderCtors   == { <<"Count()">> }
BuilderAutos   == { <<>>,
                    << <<"self.assertEqual(x, x)">> >>,
                    << <<"self.assertEqual(x, x)">>,
                       <<"self.assertEqual(ed(x), ed(x))">> >> }
BuilderFills   == { None, FloatVal(-18), StrVal(<<"3.14, ", "3.4">>), StructVal(1) }
BuilderAsserts == { <<"self.assertTrue(x.entries > 0)">>,
                    <<"self.assertAlmostEqualJSON(", var, ".toJson(), ", "{}", ")">> }

IdleBuilder ==
    /\ obj = PurePython(<<>>, <<>>, <<>>)
    /\ calls = <<>> /\ ret = <<>> /\ lastOp = "idle" /\ streak = 0

IdleDriver ==
    /\ pc = "idle" /\ i = 0 /\ objs = <<>> /\ purePython = <<>>
    /\ files = <<>> /\ template = <<>> /\ parts = <<>> /\ renders = <<>>
    /\ asserted = <<>> /\ abortedAt = "none" /\ it = 0

IdleReplace ==
    rTemplate = <<>> /\ rPayload = <<>> /\ rOut = <<>> /\ rDone = FALSE

IdleOracle ==
    ox = <<>> /\ ow = <<>> /\ ores = <<>> /\ ocalled = "none"

InitBuilder ==
    /\ \E n \in BuilderNames, c \in BuilderCtors, a \in BuilderAutos :
           obj = PurePython(n, c, a)
    /\ calls = <<>> /\ ret = <<>> /\ lastOp = "init" /\ streak = 0
    /\ IdleDriver /\ IdleReplace /\ IdleOracle

\* obj.test(fillvalue, assertion)
Test ==
    /\ Len(calls) < MaxCalls
    /\ \E f \in BuilderFills, a \in BuilderAsserts :
          /\ obj' = test(obj, f, a).self
          /\ calls' = Append(calls, [fillvalue |-> f, assertion |-> a])
    /\ lastOp' = "test" /\ streak' = 0
    /\ UNCHANGED <<ret, driverVars, replaceVars, oracleVars>>

\* ret = obj.string()
String ==
    /\ lastOp \in {"init", "test", "string"}
    /\ obj' = string(obj).self
    /\ ret' = string(obj).ret
    /\ lastOp' = "string"
    /\ streak' = IF streak < 2 THEN streak + 1 ELSE 2
    /\ UNCHANGED <<calls, driverVars, replaceVars, oracleVars>>

NextBuilder == Test \/ String

SpecBuilder == InitBuilder /\ [][NextBuilder]_vars

(***************************************************************************)
(* str.replace(old, new): every occurrence of old, found left to right     *)
(* without overlap, is replaced; the inserted text is not scanned again.   *)
(***************************************************************************)
Placeholder == <<"{", "{", "T", "E", "S", "T", "S", "}", "}">>

\* s.find(old), counted from 1: the first place old occurs in s, 0 if none
find(s, old) ==
    LET hits == { k \in 1..(Len(s) - Len(old) + 1) :
                      SubSeq(s, k, k + Len(old) - 1) = old }
    IN  IF hits = {} THEN 0
        ELSE CHOOSE k \in hits : \A j \in hits : k <= j

RECURSIVE replace_FirstOnly(_, _, _)
\* s.replace(old, new, 1): only the first occurrence is replaced
replace_FirstOnly(s, old, new) ==
    LET k == find(s, old)
    IN  IF k = 0 THEN s
        ELSE SubSeq(s, 1, k - 1) \o new \o SubSeq(s, k + Len(old), Len(s))

RECURSIVE replace_Rescan(_, _, _)
\* a replace that goes over the inserted text once more and drops a marker
\* it finds there
replace_Rescan(s, old, new) ==
    LET k == find(s, old)
        j == find(new, old)
        ins == IF j = 0 THEN new
               ELSE SubSeq(new, 1, j - 1) \o SubSeq(new, j + Len(old), Len(new))
    IN  IF k = 0 THEN s
        ELSE SubSeq(s, 1, k - 1) \o ins
             \o replace_Rescan(SubSeq(s, k + Len(old), Len(s)), old, new)

RECURSIVE replace(_, _, _)
replace(s, old, new) ==
    LET k == find(s, old)
    IN  IF k = 0 THEN s
        ELSE SubSeq(s, 1, k - 1) \o new
             \o replace(SubSeq(s, k + Len(old), Len(s)), old, new)

(***************************************************************************)
(* The driver under __main__, one action per statement.                    *)
(***************************************************************************)
Range107 == 10
Range122 == 10

purePythonAutoAssertions == <<
    <<"self.assertEqual(", var, ", ", var, ")">>,
    <<"self.assertEqual(ed(", var, "), ed(", var, "))">>,
    <<"self.assertEqual(hash(", var, "), hash(", var, "))">>,
    <<"self.assertEqual(hash(ed(", var, ")), hash(ed(", var, ")))">>,
    <<"self.assertEqual(", var, ", ", var, " + ", var, ".zero())">>,
    <<"self.assertEqual(ed(", var, "), ed(", var, ") + ed(", var, ").zero())">>,
    <<"self.assertEqual(ed(", var, " + ", var, "), ed(", var, ") + ed(", var, "))">>,
    <<"self.assertEqual(", var, ", pickle.loads(pickle.dumps(", var, ")))">>,
    <<"self.assertEqual(ed(", var, "), pickle.loads(pickle.dumps(ed(", var, "))))">>,
    <<"self.assertEqual(ed(", var, "), ed(pickle.loads(pickle.dumps(", var, "))))">> >>

RECURSIVE sum(_)
sum(xs) == IF Len(xs) = 0 THEN 0 ELSE xs[1] + sum(Tail(xs))

NonNegative(v) == v >= 0

\* "self.assertAlmostEqualJSON({}.toJson(), {})".format(PurePython.var, d)
AssertJSON(d) == <<"self.assertAlmostEqualJSON(", var, ".toJson(), ">> \o d \o <<")">>

\* repr of {"type": "Count", "data": data}
CountDict(data) == <<"{'type': 'Count', 'data': ">> \o FloatRepr(data) \o <<"}">>

\* repr of {"type": "Sum", "data": {"entries": entries, "sum": result}}
SumDict(entries, result) ==
    <<"{'type': 'Sum', 'data': {'entries': ">> \o FloatRepr(entries)
    \o <<", 'sum': ">> \o FloatRepr(result) \o <<"}}">>

\* repr of {"type": "Sum", "data": {"entries": .., "sum": .., "name": name}}
SumDictNamed(entries, result, name) ==
    <<"{'type': 'Sum', 'data': {'entries': ">> \o FloatRepr(entries)
    \o <<", 'sum': ">> \o FloatRepr(result)
    \o <<", 'name': '", name, "'}}">>

\* the data asserted by line 108: i + 1.0
countData(n) == 10 * (n + 1)

\* the data asserted by line 109 with the filter left out
weightedCountData_Unfiltered(n) == sum(SubSeq(simple, 1, n + 1))

\* the data asserted by line 109: sum(filter(lambda _: _ >= 0.0, simple[:i+1]))
weightedCountData(n) == sum(SelectSeq(SubSeq(simple, 1, n + 1), NonNegative))

\* line 123: result = sum(simple[:i+1]) + i + 1.0
result(n) == sum(SubSeq(simple, 1, n + 1)) + 10 * n + 10

\* the template file of the repository: its lines 1 to 60, the placeholder on
\* line 61, the final newline
TemplateHead == <<"#!/usr/bin/env python", NL, NL,
                  "# Copyright 2016 Jim Pivarski ... class TestEverything ...",
                  NL, "            self.assertEqual(x, y)", NL, NL>>
TemplateFile == TemplateHead \o Placeholder \o <<NL>>

\* template files the run may find in place of it: no marker, two markers
DriverTemplates ==
    { TemplateFile, TemplateHead,
      TemplateHead \o Placeholder \o <<NL>> \o Placeholder \o <<NL>> }

PriorContents == { <<>>, <<"# autogenerated.py of an earlier run", NL>> }

Init ==
    /\ pc = "L104" /\ i = 0 /\ it = 0
    /\ objs = <<>> /\ purePython = <<>> /\ renders = <<>>
    /\ \E t \in DriverTemplates, r \in BOOLEAN, w \in BOOLEAN, d \in PriorContents :
          files = [templateReadable |-> r, templateText |-> t,
                   destWritable |-> w, prior |-> d, dest |-> d]
    /\ template = <<>> /\ parts = <<>> /\ asserted = <<>> /\ abortedAt = "none"
    /\ IdleBuilder /\ IdleReplace /\ IdleOracle

idleRest == <<builderVars, replaceVars, oracleVars>>

\* v = PurePython(name, constructor, purePythonAutoAssertions)
New(line, next, v, name, constructor) ==
    /\ pc = line /\ pc' = next
    /\ objs' = (v :> PurePython(name, constructor, purePythonAutoAssertions)) @@ objs
    /\ renders' = (v :> 0) @@ renders
    /\ UNCHANGED <<i, it, purePython, files, template, parts, asserted,
                   abortedAt, idleRest>>

\* for i in range(n): the next value, or the exit when the range is used up
For(line, body, exit, n) ==
    /\ pc = line
    /\ IF it < n THEN i' = it /\ it' = it + 1 /\ pc' = body
                 ELSE i' = i /\ it' = 0 /\ pc' = exit
    /\ UNCHANGED <<objs, purePython, files, template, parts, renders, asserted,
                   abortedAt, idleRest>>

\* v.test(fillvalue, assertion)
CallTest(line, next, v, fillvalue, assertion) ==
    /\ pc = line /\ pc' = next
    /\ objs' = [objs EXCEPT ![v] = test(@, fillvalue, assertion).self]
    /\ UNCHANGED <<i, it, purePython, files, template, parts, renders,
                   abortedAt, idleRest>>

\* purePython.append(v)
AppendBuilder(line, next, v) ==
    /\ pc = line /\ pc' = next
    /\ purePython' = Append(purePython, v)
    /\ UNCHANGED <<i, it, objs, files, template, parts, renders, asserted,
                   abortedAt, idleRest>>

L104 == New("L104", "L105", "count", <<"count">>, <<"Count()">>)
L105 == New("L105", "L107", "weightedCount", <<"weightedCount">>, <<"Count()">>)
L107 == For("L107", "L108", "L111", Range107)
L108 == /\ CallTest("L108", "L109", "count", FloatVal(simple[i + 1]),
                    AssertJSON(CountDict(countData(i))))
        /\ UNCHANGED asserted
L109 == /\ CallTest("L109", "L107", "weightedCount",
                    StrVal(<<"3.14, ">> \o FloatRepr(simple[i + 1])),
                    AssertJSON(CountDict(weightedCountData(i))))
        /\ asserted' = Append(asserted, weightedCountData(i))
L111 == AppendBuilder("L111", "L112", "count")
\* line 112 appending count a second time
L112_CountAgain == AppendBuilder("L112", "L116", "count")

L112 == AppendBuilder("L112", "L116", "weightedCount")

L116 == New("L116", "L117", "summ", <<"summ">>, <<"Sum(lambda x: x + 1)">>)
L117 == New("L117", "L118", "sumWithName", <<"sumWithName">>,
            <<"Sum(named('something', lambda x: x + 1))">>)
L118 == New("L118", "L119", "sumString", <<"sumString">>, <<"Sum('x + 1')">>)
L119 == New("L119", "L120", "sumStruct", <<"sumStruct">>,
            <<"Sum(lambda x: x.double + 1)">>)
L120 == New("L120", "L122", "sumStructString", <<"sumStructString">>,
            <<"Sum('double + 1')">>)
L122 == For("L122", "L124", "L130", Range122)
L124 == /\ CallTest("L124", "L125", "summ", FloatVal(simple[i + 1]),
                    AssertJSON(SumDict(countData(i), result(i))))
        /\ UNCHANGED asserted
L125 == /\ CallTest("L125", "L126", "sumWithName", FloatVal(simple[i + 1]),
                    AssertJSON(SumDictNamed(countData(i), result(i), "something")))
        /\ UNCHANGED asserted
L126 == /\ CallTest("L126", "L127", "sumString", FloatVal(simple[i + 1]),
                    AssertJSON(SumDictNamed(countData(i), result(i), "x + 1")))
        /\ UNCHANGED asserted
L127 == /\ CallTest("L127", "L128", "sumStruct", StructVal(i + 1),
                    AssertJSON(SumDict(countData(i), result(i))))
        /\ UNCHANGED asserted
L128 == /\ CallTest("L128", "L122", "sumStructString", StructVal(i + 1),
                    AssertJSON(SumDictNamed(countData(i), result(i), "double + 1")))
        /\ UNCHANGED asserted
L130 == AppendBuilder("L130", "L131", "summ")
L131 == AppendBuilder("L131", "L132", "sumWithName")
L132 == AppendBuilder("L132", "L133", "sumString")
L133 == AppendBuilder("L133", "L134", "sumStruct")
L134 == AppendBuilder("L134", "L145", "sumStructString")

\* an exception ends the run in the statement at pc
Abort ==
    /\ pc' = "aborted" /\ abortedAt' = pc
    /\ UNCHANGED <<i, it, objs, purePython, template, parts, renders, asserted,
                   idleRest>>

\* line 145 with the destination opened for writing before the template is read
L145_OpenFirst ==
    /\ pc = "L145"
    /\ IF files.templateReadable
       THEN /\ template' = files.templateText /\ pc' = "L146_open"
            /\ UNCHANGED <<files, abortedAt>>
       ELSE /\ pc' = "aborted" /\ abortedAt' = pc
            /\ files' = [files EXCEPT !.dest = IF files.destWritable THEN <<>> ELSE @]
            /\ UNCHANGED template
    /\ UNCHANGED <<i, it, objs, purePython, parts, renders, asserted, idleRest>>

\* template = open("TEMPLATES/PurePython.py").read()
L145 ==
    /\ pc = "L145"
    /\ IF files.templateReadable
       THEN /\ template' = files.templateText /\ pc' = "L146_open"
            /\ UNCHANGED <<files, abortedAt>>
       ELSE /\ pc' = "aborted" /\ abortedAt' = pc
            /\ UNCHANGED <<files, template>>
    /\ UNCHANGED <<i, it, objs, purePython, parts, renders, asserted, idleRest>>

\* open("../python/test/autogenerated.py", "w"): the file is truncated
L146_open ==
    /\ pc = "L146_open"
    /\ IF files.destWritable
       THEN /\ files' = [files EXCEPT !.dest = <<>>] /\ pc' = "L146_string"
            /\ UNCHANGED abortedAt
       ELSE /\ pc' = "aborted" /\ abortedAt' = pc /\ UNCHANGED files
    /\ UNCHANGED <<i, it, objs, purePython, template, parts, renders, asserted,
                   idleRest>>

\* join draws the next p.string() from the generator, or finds it used up
L146_string ==
    /\ pc = "L146_string"
    /\ IF Len(parts) < Len(purePython)
       THEN LET p == purePython[Len(parts) + 1]
                r == string(objs[p])
            IN  /\ objs' = [objs EXCEPT ![p] = r.self]
                /\ parts' = Append(parts, r.ret)
                /\ renders' = [renders EXCEPT ![p] = @ + 1]
                /\ pc' = pc
       ELSE /\ pc' = "L146_write"
            /\ UNCHANGED <<objs, parts, renders>>
    /\ UNCHANGED <<i, it, purePython, files, template, asserted, abortedAt,
                   idleRest>>

\* line 146 joining the rendered tests with a single newline
Generated_SingleNewline == replace(template, Placeholder, join(<<NL>>, parts))

\* the text line 146 writes
Generated == replace(template, Placeholder, join(<<NL, NL>>, parts))

\* .write(template.replace("{{TESTS}}", "\n\n".join(...))), and the file closed
L146_write ==
    /\ pc = "L146_write"
    /\ files' = [files EXCEPT !.dest = Generated]
    /\ pc' = "done"
    /\ UNCHANGED <<i, it, objs, purePython, template, parts, renders, asserted,
                   abortedAt, idleRest>>

\* the write fails (an I/O error): some prefix of the text has reached the file
L146_writeFails ==
    /\ pc = "L146_write"
    /\ \E n \in 0..MaxPartial :
          /\ n < Len(Generated)
          /\ files' = [files EXCEPT !.dest = SubSeq(Generated, 1, n)]
    /\ Abort

\* an exception that is no I/O error (MemoryError, KeyboardInterrupt) in the
\* statement at pc
Failure ==
    /\ pc \notin {"done", "aborted", "idle"}
    /\ UNCHANGED files
    /\ Abort

Next ==
    \/ L104 \/ L105 \/ L107 \/ L108 \/ L109 \/ L111 \/ L112
    \/ L116 \/ L117 \/ L118 \/ L119 \/ L120
    \/ L122 \/ L124 \/ L125 \/ L126 \/ L127 \/ L128
    \/ L130 \/ L131 \/ L132 \/ L133 \/ L134
    \/ L145 \/ L146_open \/ L146_string \/ L146_write \/ L146_writeFails
    \/ Failure

Spec == Init /\ [][Next]_vars

(***************************************************************************)
(* SpecReplace: line 146's template.replace("{{TESTS}}", payload) on any   *)
(* template put together from a few pieces and any payload.                *)
(***************************************************************************)
Chunks == { Placeholder, <<"a">>, <<NL>>, <<"{", "{">>,
            <<"{", "{", "T", "E", "S", "T", "S", "}">>,
            <<"T", "E", "S", "T", "S", "}", "}">> }

RECURSIVE TemplatesOf(_)
\* the texts put together from at most n chunks
TemplatesOf(n) ==
    IF n = 0 THEN { <<>> }
    ELSE LET shorter == TemplatesOf(n - 1)
         IN  shorter \cup { t \o c : t \in shorter, c \in Chunks }

Payloads == { <<>>, <<"p">>, Placeholder, <<"p">> \o Placeholder \o <<"q">>,
              <<"T", "E", "S", "T", "S", "}", "}">>,
              <<"    def test_a(self):", NL, "        x = Count()">> }

InitReplace ==
    /\ rTemplate \in TemplatesOf(MaxChunks)
    /\ rPayload \in Payloads
    /\ rOut = <<>> /\ rDone = FALSE
    /\ IdleBuilder /\ IdleDriver /\ IdleOracle

\* rOut = rTemplate.replace("{{TESTS}}", rPayload)
Substitute ==
    /\ ~rDone
    /\ rOut' = replace(rTemplate, Placeholder, rPayload)
    /\ rDone' = TRUE
    /\ UNCHANGED <<rTemplate, rPayload, builderVars, driverVars, oracleVars>>

NextReplace == Substitute

SpecReplace == InitReplace /\ [][NextReplace]_vars

(***************************************************************************)
(* The numeric oracles.  A call returns [err, num, den]: the exception it  *)
(* raised ("none" if it returned) and the value num/den it returned.       *)
(***************************************************************************)
Value(n, d) == [err |-> "none", num |-> n, den |-> d]
Raised(e)   == [err |-> e, num |-> 0, den |-> 1]

\* the names bound in the module's namespace when the helpers are called:
\* what lines 3 to 61 assign or define; the script imports nothing
ModuleNames == { "simple", "Struct", "struct", "mean", "meanWeighted",
                 "variance", "varianceWeighted", "mae", "maeWeighted",
                 "PurePython" }
Builtins == { "len", "sum", "any", "max", "abs", "map", "zip", "filter",
              "range", "open", "repr", "object" }
Bound(name) == name \in ModuleNames \cup Builtins

Abs(v) == IF v < 0 THEN -v ELSE v
Max(a, b) == IF a >= b THEN a ELSE b
\* zip(x, w) runs over the shorter of the two
ZipLen(x, w) == IF Len(x) <= Len(w) THEN Len(x) ELSE Len(w)

RECURSIVE SumOver(_, _)
\* sum(f[k] for k in 1..n)
SumOver(f, n) == IF n = 0 THEN 0 ELSE SumOver(f, n - 1) + f[n]

meanWeighted(x, w) ==
    IF ~ \E k \in 1..Len(w) : w[k] > 0 THEN Value(0, 1)
    ELSE Value(SumOver([k \in 1..ZipLen(x, w) |-> x[k] * Max(w[k], 0)], ZipLen(x, w)),
               SumOver([k \in 1..Len(w) |-> IF w[k] > 0 THEN w[k] ELSE 0], Len(w)))

variance(x) ==
    IF Len(x) = 0 THEN Value(0, 1)
    ELSE IF ~Bound("math") THEN Raised("NameError")
    ELSE LET n  == Len(x)
             s1 == SumOver([k \in 1..n |-> x[k]], n)
             s2 == SumOver([k \in 1..n |-> x[k] * x[k]], n)
         IN  Value(s2 * n - s1 * s1, n * n)

\* the divisor sum(_ > 0.0 for _ in w) adds up booleans: it counts the
\* positive weights
maeWeighted(x, w) ==
    IF ~ \E k \in 1..Len(w) : w[k] > 0 THEN Value(0, 1)
    ELSE Value(SumOver([k \in 1..ZipLen(x, w) |-> Abs(x[k]) * Max(w[k], 0)],
                       ZipLen(x, w)),
               SumOver([k \in 1..Len(w) |-> IF w[k] > 0 THEN 1 ELSE 0], Len(w)))

(***************************************************************************)
(* SpecOracle: the oracles called on any values and weights of one length. *)
(***************************************************************************)
OracleValues  == { -1, 0, 2, 4 }
OracleWeights == { -1, 0, 1, 2 }

SeqsUpTo(S, n) == UNION { [1..m -> S] : m \in 0..n }

InitOracle ==
    /\ ox \in SeqsUpTo(OracleValues, MaxLen)
    /\ ow \in SeqsUpTo(OracleWeights, MaxLen)
    /\ Len(ox) = Len(ow)
    /\ ores = Value(0, 1) /\ ocalled = "none"
    /\ IdleBuilder /\ IdleDriver /\ IdleReplace

Call(name, r) ==
    /\ ocalled = "none"
    /\ ocalled' = name /\ ores' = r
    /\ UNCHANGED <<ox, ow, builderVars, driverVars, replaceVars>>

CallMeanWeighted == Call("meanWeighted", meanWeighted(ox, ow))
CallVariance     == Call("variance", variance(ox))
CallMaeWeighted  == Call("maeWeighted", maeWeighted(ox, ow))

NextOracle == CallMeanWeighted \/ CallVariance \/ CallMaeWeighted

SpecOracle == InitOracle /\ [][NextOracle]_vars

(***************************************************************************)
(* Claims about the builder.                                               *)
(***************************************************************************)
\* statements one test() call contributes
StepLen(c) ==
    Len(obj.autoassertions) + (IF c.fillvalue # None THEN 1 ELSE 0) + 1

RECURSIVE StepsBefore(_)
\* statements contributed by the calls before the k-th
StepsBefore(k) == IF k <= 1 THEN 0 ELSE StepsBefore(k - 1) + StepLen(calls[k - 1])

\* C1: after any sequence of test() calls, the lines string() returns after
\* the header line and the constructor line number the sum over the calls of
\* len(autoassertions) + (1 if a fill was given) + 1, and they are, call by
\* call, the auto-assertions in their order, then the fill statement if a
\* fill was given, then the assertion.
C1_StatementsInCallOrder ==
    lastOp = "string" =>
        LET L == SplitLines(ret)
            n == Len(obj.autoassertions)
        IN  /\ Len(L) = 2 + StepsBefore(Len(calls) + 1)
            /\ \A k \in 1..Len(calls) :
                  LET o == 2 + StepsBefore(k)
                      c == calls[k]
                  IN  /\ \A a \in 1..n :
                            L[o + a] = <<Indent>> \o obj.autoassertions[a]
                      /\ c.fillvalue # None =>
                            L[o + n + 1] = <<Indent, var, ".fill(">>
                                           \o Format(c.fillvalue) \o <<")">>
                      /\ L[o + StepLen(c)] = <<Indent>> \o c.assertion

\* C1 witness: string() was called after three test() calls on a builder with
\* auto-assertions, one call with no fill and one with a fill.
C1_Witness ==
    /\ lastOp = "string" /\ Len(calls) = 3 /\ Len(obj.autoassertions) = 2
    /\ \E j, k \in 1..3 : calls[j].fillvalue = None /\ calls[k].fillvalue # None

\* C2: a string() call that directly follows another string() call returns
\* the same text and leaves the builder as it was.
C2_StringIdempotent ==
    [][(lastOp = "string" /\ lastOp' = "string") => (ret' = ret /\ obj' = obj)]_vars

\* C2 witness: string() was called twice in a row on a builder with a body.
C2_Witness == streak = 2 /\ Len(calls) >= 1 /\ lastOp = "string"

\* C2 witness for the empty body is reached too.
C2_WitnessEmptyBody == streak = 2 /\ obj.tests = <<>>

(***************************************************************************)
(* Claims about the generation run.                                        *)
(***************************************************************************)
\* the places the placeholder occurs in a text
Occurrences(t) ==
    { k \in 1..(Len(t) - Len(Placeholder) + 1) :
          SubSeq(t, k, k + Len(Placeholder) - 1) = Placeholder }

\* the builders in the order of the append statements, lines 111 to 134
AppendOrder == <<"count", "weightedCount", "summ", "sumWithName", "sumString",
                 "sumStruct", "sumStructString">>

Rendered(b) == string(objs[b]).ret

\* C3: the generated module is the template with its placeholder replaced by
\* the rendered builders in append order, neighbours separated by "\n\n" and
\* nothing before the first or after the last (template with one placeholder).
C3_GeneratedModule ==
    (pc = "done" /\ Cardinality(Occurrences(template)) = 1) =>
        LET k == CHOOSE k \in Occurrences(template) : TRUE
            o == AppendOrder
            payload == Rendered(o[1]) \o <<NL, NL>> \o Rendered(o[2])
                       \o <<NL, NL>> \o Rendered(o[3]) \o <<NL, NL>>
                       \o Rendered(o[4]) \o <<NL, NL>> \o Rendered(o[5])
                       \o <<NL, NL>> \o Rendered(o[6]) \o <<NL, NL>>
                       \o Rendered(o[7])
        IN  /\ purePython = AppendOrder
            /\ files.dest = SubSeq(template, 1, k - 1) \o payload
                            \o SubSeq(template, k + Len(Placeholder), Len(template))

\* C3 witness: a run on the repository's template has written the module.
C3_Witness ==
    pc = "done" /\ template = TemplateFile /\ Len(files.dest) > Len(template)

RECURSIVE NonNegativeSum(_)
\* the sum of the non-negative values among the first k samples
NonNegativeSum(k) ==
    IF k = 0 THEN 0
    ELSE NonNegativeSum(k - 1) + (IF simple[k] >= 0 THEN simple[k] ELSE 0)

\* C6 as claimed: the value asserted after the k-th fill of weightedCount is
\* 3.14 times the number of non-negative samples among the first k
\* (asserted is in tenths, so both sides are in hundredths).
C6_AssertsWeightTimesCount ==
    \A k \in 1..Len(asserted) :
        asserted[k] * 10 = 314 * Cardinality({ j \in 1..k : simple[j] >= 0 })

\* C6 amended: the k-th step of weightedCount emits x.fill(3.14, simple[k-1])
\* and asserts the sum of the non-negative sample values among the first k
\* (5.6 after 3.4, 2.2, -1.8).
C6_AssertsNonNegativeSampleSum ==
    /\ \A k \in 1..Len(asserted) :
          LET n == Len(purePythonAutoAssertions)
              body == objs["weightedCount"].tests
          IN  /\ asserted[k] = NonNegativeSum(k)
              /\ body[(n + 2) * k - 1] =
                    <<var, ".fill(", "3.14, ">> \o FloatRepr(simple[k]) \o <<")">>
              /\ body[(n + 2) * k] = AssertJSON(CountDict(NonNegativeSum(k)))
    /\ Len(asserted) >= 3 => asserted[3] = 56

\* C6 witness: the weightedCount loop has run its ten steps.
C6_Witness ==
    Len(asserted) = 10 /\ pc = "L111" /\ asserted[10] = 145

\* C9: a builder changes only while string() has not been called on it, the
\* calls of string() on it never decrease and never exceed one, and a run
\* that ends has called string() exactly once on each of the seven builders.
C9_Lifecycle ==
    /\ [](\A b \in DOMAIN objs : renders[b] <= 1)
    /\ [](pc = "done" =>
             /\ DOMAIN objs = { AppendOrder[k] : k \in 1..Len(AppendOrder) }
             /\ \A b \in DOMAIN objs : renders[b] = 1)
    /\ [][\A b \in DOMAIN objs :
             /\ renders'[b] >= renders[b]
             /\ objs'[b] # objs[b] => renders[b] = 0 /\ renders'[b] = 0]_vars

\* C9 witness: the run ended with every builder filled ten times and rendered.
C9_Witness ==
    /\ pc = "done"
    /\ \A b \in DOMAIN objs : renders[b] = 1 /\ Len(objs[b].tests) = 120

\* the text a failed or interrupted line 146 can leave: a proper prefix
ProperPrefix(t, whole) ==
    Len(t) < Len(whole) /\ t = SubSeq(whole, 1, Len(t))

\* C10: the destination differs from its prior content only once the
\* template has been read; a run aborted by the read of the template (or
\* earlier) leaves the destination as it was; a run aborted after the
\* destination was opened leaves it truncated: empty when rendering failed,
\* a proper prefix of the module when the write failed.
C10_TemplateReadBeforeOpen ==
    /\ (files.dest # files.prior \/ pc \in {"L146_string", "L146_write", "done"})
          => (files.templateReadable /\ template = files.templateText)
    /\ (pc = "aborted" /\ abortedAt \notin {"L146_string", "L146_write"})
          => files.dest = files.prior
    /\ (pc = "aborted" /\ abortedAt = "L146_string") => files.dest = <<>>
    /\ (pc = "aborted" /\ abortedAt = "L146_write")
          => ProperPrefix(files.dest, Generated)

\* C10 witness: the template could not be read, and the destination, which
\* could have been opened, still holds its prior content.
C10_Witness ==
    /\ pc = "aborted" /\ abortedAt = "L145" /\ ~files.templateReadable
    /\ files.destWritable /\ files.prior # <<>> /\ files.dest = files.prior

\* A failure after the destination was opened has left it truncated.
C10_WitnessTruncated ==
    /\ pc = "aborted" /\ abortedAt = "L146_string"
    /\ files.prior # <<>> /\ files.dest = <<>>

(***************************************************************************)
(* Claims about the template substitution.                                 *)
(***************************************************************************)
\* C4: for a template with exactly one placeholder and any payload, one that
\* holds the placeholder text included, the output is as long as the
\* template, less the placeholder, plus the payload.
C4_OutputLength ==
    (rDone /\ Cardinality(Occurrences(rTemplate)) = 1) =>
        Len(rOut) = Len(rTemplate) - Len(Placeholder) + Len(rPayload)

\* C4 witness: a one-placeholder template was substituted with a payload that
\* holds the placeholder text itself.
C4_Witness ==
    /\ rDone /\ Cardinality(Occurrences(rTemplate)) = 1
    /\ Occurrences(rPayload) # {} /\ Len(rPayload) > Len(Placeholder)

Least(S) == CHOOSE k \in S : \A j \in S : k <= j

\* C5 as claimed: no marker, the output is the template; two or more, only
\* the first is replaced and the template after it is kept verbatim.
C5_OnlyFirstReplaced ==
    rDone =>
        /\ Occurrences(rTemplate) = {} => rOut = rTemplate
        /\ Cardinality(Occurrences(rTemplate)) >= 2 =>
              LET k == Least(Occurrences(rTemplate))
              IN  rOut = SubSeq(rTemplate, 1, k - 1) \o rPayload
                         \o SubSeq(rTemplate, k + Len(Placeholder), Len(rTemplate))

RECURSIVE Stitch(_, _, _, _)
\* t from position from on, with the payload in place of the placeholder at
\* each of the places occ
Stitch(t, from, occ, payload) ==
    IF occ = {} THEN SubSeq(t, from, Len(t))
    ELSE LET k == Least(occ)
         IN  SubSeq(t, from, k - 1) \o payload
             \o Stitch(t, k + Len(Placeholder), occ \ {k}, payload)

\* C5 amended: no marker, the output is the template; two or more, each of
\* them is replaced by the payload, so that the output is longer than the
\* template by (payload - placeholder) for every marker.
C5_EveryMarkerReplaced ==
    rDone =>
        LET occ == Occurrences(rTemplate)
        IN  /\ occ = {} => rOut = rTemplate
            /\ Cardinality(occ) >= 2 =>
                  /\ rOut = Stitch(rTemplate, 1, occ, rPayload)
                  /\ Len(rOut) = Len(rTemplate)
                        + Cardinality(occ) * (Len(rPayload) - Len(Placeholder))

\* C5 witness: a template with two markers was substituted with a payload
\* that is not the marker.
C5_Witness ==
    /\ rDone /\ Cardinality(Occurrences(rTemplate)) = 2
    /\ rPayload = <<"p">> /\ Len(rOut) = Len(rTemplate) - 16

(***************************************************************************)
(* Claims about the oracles.                                               *)
(***************************************************************************)
\* C7 as claimed: maeWeighted returns 0.0 when no weight is positive, and
\* otherwise the sum of |x_i| * max(w_i, 0) over the sum of the positive
\* weights.
C7_MaeWeightedDividesByWeightSum ==
    ocalled = "maeWeighted" =>
        LET n == Len(ox)
            top == SumOver([k \in 1..n |-> Abs(ox[k]) * Max(ow[k], 0)], n)
            bot == SumOver([k \in 1..n |-> IF ow[k] > 0 THEN ow[k] ELSE 0], n)
        IN  /\ ores.err = "none"
            /\ IF bot = 0 THEN ores.num = 0
               ELSE ores.num * bot = top * ores.den

\* C8 as claimed: variance returns a value for every sequence, 0.0 for the
\* empty one and E[x^2] - (E[x])^2 otherwise.
C8_VarianceIsTotal ==
    ocalled = "variance" =>
        LET n  == Len(ox)
            s1 == SumOver([k \in 1..n |-> ox[k]], n)
            s2 == SumOver([k \in 1..n |-> ox[k] * ox[k]], n)
        IN  /\ ores.err = "none"
            /\ IF n = 0 THEN ores.num = 0
               ELSE ores.num * n * n = (s2 * n - s1 * s1) * ores.den

====
